---------------------------- MODULE Spec2Model ----------------------------
(***************************************************************************)
(* A model of gilda's dictionary-based span matcher (gilda/ner.py) and of  *)
(* its string alignment and scoring kernel (gilda/scorer.py).              *)
(*                                                                         *)
(* Python strings are modelled as sequences of one-character strings, so   *)
(* that they can be indexed, sliced and measured the way the code does.    *)
(* Python's None is the model value None, an exception is a record naming  *)
(* the exception in its field "raised".                                    *)
(***************************************************************************)
EXTENDS Integers, Sequences, FiniteSets, TLC

VARIABLES
    pc,                 \* position of the caller: which call is pending/done
    text,               \* annotate: the input text
    sentences,          \* annotate: what sent_split_fun(text) returned
    prefix_index,       \* annotate: grounder.prefix_index
    lexicon,            \* annotate: the span texts grounder.ground knows
    annotations,        \* annotate: the returned list of Annotation
    calls,              \* annotate: the grounder.ground calls made, in order
    query,              \* generate_match: argument
    ref,                \* generate_match: argument
    beginning_of_sentence, \* generate_match: argument
    walk,               \* generate_match: its locals when the walk ended
    match,              \* generate_match: the returned Match (or exception)
    score               \* score_string_match: the returned score (or exception)

vars == <<pc, text, sentences, prefix_index, lexicon, annotations, calls,
          query, ref, beginning_of_sentence, walk, match, score>>

nerVars == <<text, sentences, prefix_index, lexicon, annotations, calls>>
scorerVars == <<query, ref, beginning_of_sentence, walk, match, score>>

None == "None"

-----------------------------------------------------------------------------
(* Bounds of the model                                                     *)

\* total number of characters in the sentences of one annotate call
MaxTextLen == 3
\* number of sentences the splitter returns
MaxSents == 2
\* longest span length registered in the prefix index
MaxSpan == 2
\* longest query / reference string given to generate_match
MaxStrLen == 3
\* longest reference string of the case-flip comparison
MaxRefLen == 4

-----------------------------------------------------------------------------
(* Strings                                                                 *)

\* the characters of the texts given to annotate
NerChars == {"a", "B", " ", "."}

\* the characters of the strings given to generate_match
ScorerChars == {"a", "A", " ", "-"}

StringsUpTo(chars, n) == UNION {[1..k -> chars] : k \in 0..n}

StringsBetween(chars, lo, hi) == UNION {[1..k -> chars] : k \in lo..hi}

\* s[i:j] of Python, with 0 <= i <= j <= len(s)
Slice(s, i, j) == [k \in 1..(j - i) |-> s[i + k]]

\* sep.join(ss)
RECURSIVE Join(_, _)
Join(ss, sep) ==
    IF ss = <<>> THEN <<>>
    ELSE IF Len(ss) = 1 THEN Head(ss)
    ELSE Head(ss) \o sep \o Join(Tail(ss), sep)

IsSpace(c) == c \in {" ", "\t", "\n"}

\* s.rstrip('.'): every trailing period is removed
RECURSIVE RStripDots(_)
RStripDots(s) ==
    IF s # <<>> /\ s[Len(s)] = "." THEN RStripDots(SubSeq(s, 1, Len(s) - 1))
    ELSE s

\* s.split(): the maximal runs of non-whitespace characters
RECURSIVE SplitAcc(_, _, _)
SplitAcc(s, cur, acc) ==
    IF s = <<>> THEN (IF cur = <<>> THEN acc ELSE Append(acc, cur))
    ELSE IF IsSpace(Head(s))
         THEN SplitAcc(Tail(s), <<>>, IF cur = <<>> THEN acc ELSE Append(acc, cur))
         ELSE SplitAcc(Tail(s), Append(cur, Head(s)), acc)

Split(s) == SplitAcc(s, <<>>, <<>>)

-----------------------------------------------------------------------------
(* gilda.process: the Normalizer                                           *)

LowerChar(c) ==
    CASE c = "A" -> "a"
      [] c = "B" -> "b"
      [] c = "E" -> "e"
      [] c = "K" -> "k"
      [] c = "M" -> "m"
      [] c = "R" -> "r"
      [] OTHER -> c

IsUpper(c) == LowerChar(c) # c

IsLower(c) == c \in {"a", "b", "c", "d", "e", "f", "g", "h", "i", "j", "k",
                     "l", "m", "n", "o", "p", "q", "r", "s", "t", "u", "v",
                     "w", "x", "y", "z"}

Lower(s) == [i \in 1..Len(s) |-> LowerChar(s[i])]

\* replace_whitespace: every run of whitespace becomes one ASCII space
RECURSIVE replace_whitespace(_)
replace_whitespace(s) ==
    IF s = <<>> THEN <<>>
    ELSE IF IsSpace(Head(s))
         THEN IF Len(s) > 1 /\ IsSpace(s[2])
              THEN replace_whitespace(Tail(s))
              ELSE <<" ">> \o replace_whitespace(Tail(s))
         ELSE <<Head(s)>> \o replace_whitespace(Tail(s))

\* the en dash and the em dash are written "ndash" and "mdash"
IsDash(c) == c \in {"-", "ndash", "mdash"}

\* replace_dashes: every kind of dash becomes the ASCII dash
replace_dashes(s) == [i \in 1..Len(s) |-> IF IsDash(s[i]) THEN "-" ELSE s[i]]

RemoveDashes(s) == SelectSeq(s, LAMBDA c : ~IsDash(c))

\* normalize: white space collapsed, dashes removed, case folded
normalize(s) == Lower(RemoveDashes(replace_whitespace(s)))

-----------------------------------------------------------------------------
(* gilda.ner                                                               *)

\* the English stop words among the words the model's texts can hold
stop_words == {<<"a">>}

\* grounder.prefix_index.get(word, set())
IndexGet(index, word) == IF word \in DOMAIN index THEN index[word] ELSE {}

\* grounder.ground(txt_span, ...): the ranked matches, empty when unknown
Ground(lex, txt_span) == IF txt_span \in lex THEN <<[term |-> normalize(txt_span)]>> ELSE <<>>

\* word_coords: [text_coord], then each word's length plus one added
RECURSIVE WordCoordsAcc(_, _)
WordCoordsAcc(raw_words, coords) ==
    IF raw_words = <<>> THEN coords
    ELSE WordCoordsAcc(Tail(raw_words),
                       Append(coords, coords[Len(coords)] + Len(Head(raw_words)) + 1))

WordCoords(raw_words, text_coord) == WordCoordsAcc(raw_words, <<text_coord>>)

NextTextCoordNoSeparator(text_coord, sentence) == text_coord + Len(sentence)

\* text_coord += len(sentence) + 1
NextTextCoord(text_coord, sentence) == text_coord + Len(sentence) + 1

\* {span for span in spans if idx + span <= len(words)}
ApplicableSpans(spans, idx, nwords) == {span \in spans : idx + span <= nwords}

\* sorted(applicable_spans, reverse=True)
RECURSIVE SortedReverse(_)
SortedReverse(S) ==
    IF S = {} THEN <<>>
    ELSE LET m == CHOOSE x \in S : \A y \in S : y <= x
         IN <<m>> \o SortedReverse(S \ {m})

RECURSIVE SortedForward(_)
SortedForward(S) ==
    IF S = {} THEN <<>>
    ELSE LET m == CHOOSE x \in S : \A y \in S : x <= y
         IN <<m>> \o SortedForward(S \ {m})

\* for span in sorted(applicable_spans, reverse=True)
SpanOrder(S) == SortedReverse(S)

\* ' '.join(raw_words[idx:idx+span])
SpanText(raw_words, idx, span) == Join(Slice(raw_words, idx, idx + span), <<" ">>)

\* start_coord = word_coords[idx]
StartCoord(word_coords, idx) == word_coords[idx + 1]

EndCoordInclusive(word_coords, raw_words, idx, span) ==
    word_coords[idx + span] + Len(raw_words[idx + span]) - 1

\* end_coord = word_coords[idx+span-1] + len(raw_words[idx+span-1])

EndCoord(word_coords, raw_words, idx, span) ==
    word_coords[idx + span] + Len(raw_words[idx + span])

SkipUntilStuck(idx, span) == idx

\* skip_until = idx + span
SkipUntil(idx, span) == idx + span

\* the loop over the candidate span lengths at word position idx: the calls
\* made and, when one matched, its span length (0: none matched)
RECURSIVE TrySpans(_, _, _, _, _, _)
TrySpans(order, raw_words, idx, sent, lex, tried) ==
    IF order = <<>> THEN [span |-> 0, matches |-> <<>>, tried |-> tried]
    ELSE LET span == Head(order)
             txt_span == SpanText(raw_words, idx, span)
             matches == Ground(lex, txt_span)
             call == [sent |-> sent, idx |-> idx, span |-> span,
                      txt |-> txt_span, matched |-> matches # <<>>]
         IN IF matches # <<>>
            THEN [span |-> span, matches |-> matches, tried |-> Append(tried, call)]
            ELSE TrySpans(Tail(order), raw_words, idx, sent, lex, Append(tried, call))

\* the loop over the word positions of one sentence
RECURSIVE ScanWords(_, _, _, _, _, _, _, _, _)
ScanWords(idx, skip_until, raw_words, words, word_coords, sent, index, lex, acc) ==
    IF idx >= Len(words) THEN acc
    ELSE LET word == words[idx + 1]
             spans == IndexGet(index, word)
             next(su, a) == ScanWords(idx + 1, su, raw_words, words, word_coords,
                                      sent, index, lex, a)
         IN IF idx < skip_until THEN next(skip_until, acc)
            ELSE IF word \in stop_words THEN next(skip_until, acc)
            ELSE IF spans = {} THEN next(skip_until, acc)
            ELSE LET applicable_spans == ApplicableSpans(spans, idx, Len(words))
                     r == TrySpans(SpanOrder(applicable_spans), raw_words, idx,
                                   sent, lex, acc.calls)
                 IN IF r.span = 0
                    THEN next(skip_until, [acc EXCEPT !.calls = r.tried])
                    ELSE next(SkipUntil(idx, r.span),
                              [annotations |-> Append(acc.annotations,
                                   [text |-> SpanText(raw_words, idx, r.span),
                                    matches |-> r.matches,
                                    start |-> StartCoord(word_coords, idx),
                                    end |-> EndCoord(word_coords, raw_words, idx, r.span)]),
                               calls |-> r.tried])

\* the loop over the sentences
RECURSIVE ScanSentences(_, _, _, _, _, _)
ScanSentences(sents, sent, text_coord, index, lex, acc) ==
    IF sent > Len(sents) THEN acc
    ELSE LET sentence == sents[sent]
             raw_words == Split(RStripDots(sentence))
             word_coords == WordCoords(raw_words, text_coord)
             words == [i \in 1..Len(raw_words) |-> normalize(raw_words[i])]
         IN ScanSentences(sents, sent + 1, NextTextCoord(text_coord, sentence), index, lex,
                          ScanWords(0, 0, raw_words, words, word_coords, sent, index, lex, acc))

\* annotate(text, grounder=..., sent_split_fun=...), given the splitter's output
annotate(sents, index, lex) ==
    ScanSentences(sents, 1, 0, index, lex, [annotations |-> <<>>, calls |-> <<>>])

-----------------------------------------------------------------------------
(* The inputs of annotate                                                  *)

\* the lists of at most k sentences holding at most n characters in all
RECURSIVE SentenceLists(_, _)
SentenceLists(k, n) ==
    IF k = 0 THEN {<<>>}
    ELSE {<<>>} \cup
         UNION {{<<s>> \o rest : rest \in SentenceLists(k - 1, n - Len(s))} :
                s \in StringsUpTo(NerChars, n)}

\* the normalized words an index of the model registers
IndexKeys == {<<"b">>}

\* the span texts a resolver of the model may know
Terms == {<<"B">>, <<"B", " ", "B">>, <<"B", " ", "a">>}

\* the characters the splitter dropped between two sentences
Separators == {<<>>, <<" ">>}

\* the input of the module's doctest
DoctestText ==
    <<"M", "E", "K", " ", "p", "h", "o", "s", "p", "h", "o", "r", "y", "l", "a",
      "t", "e", "s", " ", "E", "R", "K">>

DoctestIndex == (<<"m", "e", "k">> :> {1}) @@ (<<"e", "r", "k">> :> {1})

DoctestLexicon == {<<"M", "E", "K">>, <<"E", "R", "K">>}

IdleScorer ==
    /\ query = None /\ ref = None /\ beginning_of_sentence = None
    /\ walk = None /\ match = None /\ score = None

InitNer ==
    /\ pc = "annotate"
    /\ \/ /\ sentences \in SentenceLists(MaxSents, MaxTextLen)
          /\ \E sep \in Separators : text = Join(sentences, sep)
          /\ prefix_index \in [IndexKeys -> SUBSET (1..MaxSpan)]
          /\ lexicon \in SUBSET Terms
       \/ /\ text = DoctestText
          /\ sentences = <<DoctestText>>
          /\ prefix_index = DoctestIndex
          /\ lexicon = DoctestLexicon
    /\ annotations = None
    /\ calls = None
    /\ IdleScorer

Annotate ==
    /\ pc = "annotate"
    /\ LET r == annotate(sentences, prefix_index, lexicon)
       IN /\ annotations' = r.annotations
          /\ calls' = r.calls
    /\ pc' = "annotated"
    /\ UNCHANGED <<text, sentences, prefix_index, lexicon>>
    /\ UNCHANGED scorerVars

NextNer == Annotate

SpecNer == InitNer /\ [][NextNer]_vars

-----------------------------------------------------------------------------
(* gilda.process: the capitalization classifier                            *)

AllUpper(w) == \A i \in 1..Len(w) : IsUpper(w[i])

AllLower(w) == \A i \in 1..Len(w) : IsLower(w[i])

\* get_capitalization_pattern(word, beginning_of_sentence): the first
\* pattern that matches the whole word; a word that matches none, the empty
\* word among them, is mixed
get_capitalization_pattern(word, bos) ==
    IF bos /\ Len(word) >= 1 /\ IsUpper(word[1]) /\ AllLower(Tail(word))
        THEN "sentence_initial_cap"
    ELSE IF Len(word) = 1 /\ IsUpper(word[1]) THEN "single_cap_letter"
    ELSE IF Len(word) >= 1 /\ AllUpper(word) THEN "all_caps"
    ELSE IF Len(word) >= 2 /\ IsUpper(word[1]) /\ AllLower(Tail(word)) THEN "initial_cap"
    ELSE IF Len(word) >= 1 /\ AllLower(word) THEN "all_lower"
    ELSE "mixed"

-----------------------------------------------------------------------------
(* gilda.scorer: Match and generate_match                                  *)

\* what a call gives back: a value, or the exception it raised
Return(v) == [raised |-> "none", value |-> v]

Raise(exception) == [raised |-> exception]

Returns(r) == r.raised = "none"

\* Match(query, ref, exact=None, space_mismatch=None, dash_mismatches=None,
\* cap_combos=None). The attributes that are None are listed in "none"; such
\* an attribute holds no value (FALSE, {} and <<>> below stand for nothing).
NewMatch(q, r) ==
    [query |-> q, ref |-> r, exact |-> FALSE, space_mismatch |-> FALSE,
     dash_mismatches |-> {}, cap_combos |-> <<>>,
     none |-> {"exact", "space_mismatch", "dash_mismatches", "cap_combos"}]

\* the keyword argument name=value given to Match(...)
With(m, name, value) == [m EXCEPT ![name] = value, !.none = @ \ {name}]

IsNone(m, name) == name \in m.none

\* m.exact is True, m.space_mismatch is True
IsTrue(m, name) == ~IsNone(m, name) /\ m[name]

\* the walk of the two cursors.  Walk is the test of the while loop followed
\* by the part of its body that deals with spaces, WalkDashes the part that
\* deals with dashes and with the other characters.
RECURSIVE Walk(_, _, _, _, _, _)
RECURSIVE WalkDashes(_, _, _, _, _, _)

WalkDashes(query_suffix, ref_suffix, query_pieces, ref_pieces, dash_mismatches, n) ==
    \* query_suffix[0], ref_suffix[0]: an IndexError on an empty string
    IF query_suffix = <<>> \/ ref_suffix = <<>>
    THEN [outcome |-> "IndexError", query_pieces |-> query_pieces,
          ref_pieces |-> ref_pieces, dash_mismatches |-> dash_mismatches,
          iterations |-> n]
    ELSE LET qd == (query_suffix[1] = "-")
             rd == (ref_suffix[1] = "-")
             last == Len(query_pieces)
         IN IF qd /\ rd
            THEN Walk(Tail(query_suffix), Tail(ref_suffix),
                      Append(query_pieces, <<>>), Append(ref_pieces, <<>>),
                      dash_mismatches, n + 1)
            ELSE IF qd /\ ~rd
            THEN Walk(Tail(query_suffix), ref_suffix,
                      Append(query_pieces, <<>>), Append(ref_pieces, <<>>),
                      dash_mismatches \cup {"query"}, n + 1)
            ELSE IF ~qd /\ rd
            THEN Walk(query_suffix, Tail(ref_suffix),
                      Append(query_pieces, <<>>), Append(ref_pieces, <<>>),
                      dash_mismatches \cup {"ref"}, n + 1)
            ELSE Walk(Tail(query_suffix), Tail(ref_suffix),
                      [query_pieces EXCEPT ![last] = Append(@, query_suffix[1])],
                      [ref_pieces EXCEPT ![Len(ref_pieces)] = Append(@, ref_suffix[1])],
                      dash_mismatches, n + 1)

Walk(query_suffix, ref_suffix, query_pieces, ref_pieces, dash_mismatches, n) ==
    IF query_suffix = <<>> \/ ref_suffix = <<>>
    THEN [outcome |-> "exhausted", query_pieces |-> query_pieces,
          ref_pieces |-> ref_pieces, dash_mismatches |-> dash_mismatches,
          iterations |-> n]
    ELSE LET qs == (query_suffix[1] = " ")
             rs == (ref_suffix[1] = " ")
         IN IF qs /\ rs
            THEN WalkDashes(Tail(query_suffix), Tail(ref_suffix),
                            Append(query_pieces, <<>>), Append(ref_pieces, <<>>),
                            dash_mismatches, n)
            ELSE IF (qs /\ ~rs) \/ (rs /\ ~qs)
            THEN [outcome |-> "space_mismatch", query_pieces |-> query_pieces,
                  ref_pieces |-> ref_pieces, dash_mismatches |-> dash_mismatches,
                  iterations |-> n]
            ELSE WalkDashes(query_suffix, ref_suffix, query_pieces, ref_pieces,
                            dash_mismatches, n)

\* whether a piece pair counts as an exact match
PieceExact(qp, rp, first_bos) ==
    IF qp = rp /\ ~first_bos THEN TRUE
    ELSE /\ get_capitalization_pattern(qp, first_bos) = get_capitalization_pattern(rp, FALSE)
         /\ qp = rp

\* the loop over zip(query_pieces, ref_pieces), from pair number i on
RECURSIVE ComparePiecesFrom(_, _, _, _, _)
ComparePiecesFrom(i, query_pieces, ref_pieces, bos, acc) ==
    IF i > Len(query_pieces) \/ i > Len(ref_pieces) THEN acc
    ELSE LET qp == query_pieces[i]
             rp == ref_pieces[i]
             first_bos == (i = 1) /\ bos
         IN ComparePiecesFrom(i + 1, query_pieces, ref_pieces, bos,
                IF PieceExact(qp, rp, first_bos)
                THEN [acc EXCEPT !.exact = TRUE]
                ELSE [acc EXCEPT !.combinations =
                         Append(@, <<get_capitalization_pattern(qp, first_bos),
                                     get_capitalization_pattern(rp, FALSE)>>)])

\* exact only when every pair matched
ComparePiecesEvery(query_pieces, ref_pieces, bos) ==
    LET r == ComparePiecesFrom(1, query_pieces, ref_pieces, bos,
                               [exact |-> FALSE, combinations |-> <<>>])
    IN [r EXCEPT !.exact = (r.combinations = <<>>)]

ComparePieces(query_pieces, ref_pieces, bos) ==
    ComparePiecesFrom(1, query_pieces, ref_pieces, bos,
                      [exact |-> FALSE, combinations |-> <<>>])

NoWalk == [outcome |-> "none", query_pieces |-> <<>>, ref_pieces |-> <<>>,
           dash_mismatches |-> {}, iterations |-> 0]

\* generate_match(query, ref, beginning_of_sentence): what it returns or
\* raises, with the locals of its walk
generate_match(query_arg, ref_arg, bos) ==
    IF normalize(query_arg) # normalize(ref_arg)
    THEN [result |-> Raise("ValueError"), walk |-> NoWalk]
    ELSE LET q == replace_dashes(replace_whitespace(query_arg))
             r == replace_dashes(replace_whitespace(ref_arg))
         IN IF ~bos /\ q = r
            THEN [result |-> Return(With(NewMatch(q, r), "exact", TRUE)),
                  walk |-> NoWalk]
            ELSE LET w == Walk(q, r, << <<>> >>, << <<>> >>, {}, 0)
                 IN IF w.outcome = "IndexError"
                    THEN [result |-> Raise("IndexError"), walk |-> w]
                    ELSE IF w.outcome = "space_mismatch"
                    THEN [result |-> Return(With(NewMatch(q, r), "space_mismatch", TRUE)),
                          walk |-> w]
                    ELSE LET c == ComparePieces(w.query_pieces, w.ref_pieces, bos)
                         IN [result |-> Return(
                                With(With(With(NewMatch(q, r),
                                    "dash_mismatches", w.dash_mismatches),
                                    "exact", c.exact),
                                    "cap_combos", c.combinations)),
                             walk |-> w]

-----------------------------------------------------------------------------
(* gilda.scorer: the methods of Match and score_string_match               *)

Contains(seq, x) == \E i \in 1..Len(seq) : seq[i] = x

Elements(seq) == {seq[i] : i \in 1..Len(seq)}

\* {c[0] for c in self.cap_combos}
QueryCases(m) == {m.cap_combos[i][1] : i \in 1..Len(m.cap_combos)}

\* {c[1] for c in self.cap_combos}
RefCases(m) == {m.cap_combos[i][2] : i \in 1..Len(m.cap_combos)}

\* "x in None", "for c in None", "set(None)" and "len(None)" raise TypeError
score_short_abbr(m) ==
    IF Len(m.ref) > 3 THEN Return(1)
    ELSE IF IsNone(m, "cap_combos") THEN Raise("TypeError")
    ELSE IF \/ Contains(m.cap_combos, <<"all_caps", "all_lower">>)
            \/ Contains(m.cap_combos, <<"all_lower", "all_caps">>)
         THEN Return(0)
         ELSE Return(1)

score_mixed(m) ==
    IF IsNone(m, "cap_combos") THEN Raise("TypeError")
    ELSE IF Contains(m.cap_combos, <<"mixed", "mixed">>) THEN Return(0)
    ELSE IF "mixed" \in QueryCases(m) \/ "mixed" \in RefCases(m) THEN Return(1)
    ELSE Return(2)

score_exact(m) == Return(IF IsTrue(m, "exact") THEN 1 ELSE 0)

score_acic(m) ==
    IF IsTrue(m, "exact") /\ (IsNone(m, "cap_combos") \/ m.cap_combos = <<>>)
        THEN Return(2)
    ELSE IF IsNone(m, "cap_combos") THEN Raise("TypeError")
    ELSE IF Elements(m.cap_combos) = {<<"sentence_initial", "all_lower">>} THEN Return(2)
    ELSE IF /\ IsTrue(m, "exact")
            /\ Elements(m.cap_combos) \subseteq
                   {<<"all_caps", "sentence_initial_cap">>,
                    <<"sentence_initial_cap", "all_caps">>}
         THEN Return(1)
         ELSE Return(0)

Max(a, b) == IF a >= b THEN a ELSE b

score_combo(m) ==
    IF IsNone(m, "cap_combos") THEN Raise("TypeError")
    ELSE LET qc == QueryCases(m)
             rc == RefCases(m)
             query_combo0 == 4 - Cardinality(qc)
             ref_combo0 == 4 - Cardinality(rc)
             query_combo1 ==
                 IF "single_cap_letter" \in qc /\ ("all_caps" \in qc \/ "initial_cap" \in qc)
                 THEN query_combo0 + 1 ELSE query_combo0
             ref_combo ==
                 IF "single_cap_letter" \in rc /\ ("all_caps" \in rc \/ "initial_cap" \in rc)
                 THEN ref_combo0 + 1 ELSE ref_combo0
             query_combo ==
                 IF \/ /\ "sentence_initial_cap" \in qc
                       /\ Cardinality(qc) = 1
                       /\ Contains(m.cap_combos, <<"sentence_initial_cap", "all_lower">>)
                    \/ {"single_cap_letter", "initial_cap", "all_lower"} \cap qc # {}
                 THEN query_combo1 + 1 ELSE query_combo1
         IN Return(Max(query_combo, ref_combo))

score_dash(m) ==
    IF IsNone(m, "dash_mismatches") THEN Raise("TypeError")
    ELSE Return(2 - Cardinality(m.dash_mismatches))

\* the attributes an instance of Match has: the ones __init__ sets and the
\* methods of the class
MatchAttributes ==
    {"query", "ref", "exact", "space_mismatch", "dash_mismatches", "cap_combos",
     "__init__", "__str__", "_query_cases", "_ref_cases",
     "score_short_abbr", "score_mixed", "score_exact", "score_acic",
     "score_combo", "score_dash"}

\* the call of the bound method match.<name>
CallMethod(m, name) ==
    CASE name = "score_short_abbr" -> score_short_abbr(m)
      [] name = "score_mixed" -> score_mixed(m)
      [] name = "score_exact" -> score_exact(m)
      [] name = "score_acic" -> score_acic(m)
      [] name = "score_combo" -> score_combo(m)
      [] name = "score_dash" -> score_dash(m)
      [] OTHER -> Raise("TypeError")

\* the terms of score_string_match: the attribute of match it reads, and
\* the coefficient
ScoreTerms ==
    << <<"get_short_abbr", 2>>, <<"get_mixed", 3>>, <<"get_exact", 2>>,
       <<"get_acic", 3>>, <<"get_combo", 5>>, <<"get_dash", 3>> >>

\* for fun, coeff in terms: score = coeff * score + fun(); norm *= coeff
RECURSIVE ScoreLoop(_, _, _, _)
ScoreLoop(m, terms, sc, norm) ==
    IF terms = <<>> THEN Return([num |-> sc, den |-> norm - 1])
    ELSE LET f == CallMethod(m, Head(terms)[1])
             coeff == Head(terms)[2]
         IN IF ~Returns(f) THEN f
            ELSE ScoreLoop(m, Tail(terms), coeff * sc + f.value, norm * coeff)

\* score_string_match(match): the score as the fraction num / den.  Building
\* the list of terms reads the six attributes of match, and reading an
\* attribute that match does not have raises AttributeError.
score_string_match(m) ==
    IF \E i \in 1..Len(ScoreTerms) : ScoreTerms[i][1] \notin MatchAttributes
    THEN Raise("AttributeError")
    ELSE ScoreLoop(m, ScoreTerms, 0, 1)

-----------------------------------------------------------------------------
(* The callers of the scorer                                               *)

IdleNer ==
    /\ text = None /\ sentences = None /\ prefix_index = None
    /\ lexicon = None /\ annotations = None /\ calls = None

InitScorer ==
    /\ pc = "generate_match"
    /\ query \in StringsUpTo(ScorerChars, MaxStrLen)
    /\ ref \in StringsUpTo(ScorerChars, MaxStrLen)
    /\ beginning_of_sentence \in BOOLEAN
    /\ walk = NoWalk
    /\ match = Raise("pending")
    /\ score = Raise("pending")
    /\ IdleNer

\* a reference string longer than 3 characters, and either itself or its
\* lower-cased form as the query
InitCaseFlip ==
    /\ pc = "generate_match"
    /\ ref \in StringsBetween(ScorerChars, 4, MaxRefLen)
    /\ query \in {ref, Lower(ref)}
    /\ beginning_of_sentence = FALSE
    /\ walk = NoWalk
    /\ match = Raise("pending")
    /\ score = Raise("pending")
    /\ IdleNer

GenerateMatch ==
    /\ pc = "generate_match"
    /\ LET g == generate_match(query, ref, beginning_of_sentence)
       IN /\ match' = g.result
          /\ walk' = g.walk
          /\ pc' = IF Returns(g.result) THEN "matched" ELSE "raised"
    /\ UNCHANGED <<query, ref, beginning_of_sentence, score>>
    /\ UNCHANGED nerVars

ScoreStringMatch ==
    /\ pc = "matched"
    /\ score' = score_string_match(match.value)
    /\ pc' = "scored"
    /\ UNCHANGED <<query, ref, beginning_of_sentence, walk, match>>
    /\ UNCHANGED nerVars

NextScorer == GenerateMatch \/ ScoreStringMatch

SpecScorer == InitScorer /\ [][NextScorer]_vars

SpecCaseFlip == InitCaseFlip /\ [][NextScorer]_vars

-----------------------------------------------------------------------------
(* Properties of annotate                                                  *)

Returned == pc = "annotated"

\* the words annotate sees in sentence number sent
RawWordsOf(sent) == Split(RStripDots(sentences[sent]))

StartsWithSpace(s) == s # <<>> /\ IsSpace(s[1])

\* C1: the annotations annotate returns are sorted by start and do not
\* overlap: each one ends no later than the next one starts, inside one
\* sentence and across sentences, whatever the splitter returned and
\* however irregular the white space of the sentences is.
C1_NonOverlap ==
    Returned =>
        \A i \in 1..(Len(annotations) - 1) :
            /\ annotations[i].end <= annotations[i + 1].start
            /\ annotations[i].start <= annotations[i + 1].start

\* an annotation in a sentence that starts with white space, followed by
\* an annotation in a later sentence
C1_Witness ==
    /\ Returned
    /\ \E i \in 1..(Len(calls) - 1) :
           /\ calls[i].matched /\ calls[i + 1].matched
           /\ calls[i].sent < calls[i + 1].sent
           /\ StartsWithSpace(sentences[calls[i].sent])

\* the calls of grounder.ground that returned matches, in order: call k of
\* them is the one that produced annotation k
RECURSIVE MatchedCalls(_)
MatchedCalls(cs) ==
    IF cs = <<>> THEN <<>>
    ELSE (IF Head(cs).matched THEN <<Head(cs)>> ELSE <<>>) \o MatchedCalls(Tail(cs))

\* C2: longest match wins. When a span of L words at word position p is
\* accepted, every longer length registered in the prefix index for the
\* normalized word at p that fits in the sentence was given to the resolver
\* earlier and returned no match, and no shorter length is tried at p; each
\* annotation is the span of one accepted call.
C2_LongestMatchWins ==
    Returned =>
        /\ Len(MatchedCalls(calls)) = Len(annotations)
        /\ \A k \in 1..Len(annotations) :
               annotations[k].text = MatchedCalls(calls)[k].txt
        /\ \A i \in 1..Len(calls) :
               calls[i].matched =>
                 LET c == calls[i]
                     raw == RawWordsOf(c.sent)
                     word == normalize(raw[c.idx + 1])
                 IN /\ \A L \in IndexGet(prefix_index, word) :
                          (L > c.span /\ c.idx + L <= Len(raw)) =>
                              \E j \in 1..(i - 1) :
                                  /\ calls[j].sent = c.sent
                                  /\ calls[j].idx = c.idx
                                  /\ calls[j].span = L
                                  /\ ~calls[j].matched
                    /\ \A j \in 1..Len(calls) :
                          (calls[j].sent = c.sent /\ calls[j].idx = c.idx)
                              => calls[j].span >= c.span

\* a span of one word accepted after the two-word span at the same
\* position was tried and rejected
C2_Witness ==
    /\ Returned
    /\ \E i \in 2..Len(calls) :
           /\ calls[i].matched
           /\ calls[i].span = 1
           /\ ~calls[i - 1].matched
           /\ calls[i - 1].sent = calls[i].sent
           /\ calls[i - 1].idx = calls[i].idx
           /\ calls[i - 1].span = 2

\* every white space character of s is one ASCII space with no white space
\* next to it
SingleSpaced(s) ==
    \A i \in 1..Len(s) :
        IsSpace(s[i]) => /\ s[i] = " "
                         /\ (i < Len(s) => ~IsSpace(s[i + 1]))

\* the sentences are consecutive substrings of the text, starting at its
\* first character, with exactly one character between two of them
RECURSIVE ConsecutiveFrom(_, _, _)
ConsecutiveFrom(txt, sents, at) ==
    IF sents = <<>> THEN TRUE
    ELSE /\ at + Len(Head(sents)) <= Len(txt)
         /\ Slice(txt, at, at + Len(Head(sents))) = Head(sents)
         /\ (Len(sents) > 1 => ConsecutiveFrom(txt, Tail(sents), at + Len(Head(sents)) + 1))

RegularText ==
    /\ ConsecutiveFrom(text, sentences, 0)
    /\ \A s \in 1..Len(sentences) : SingleSpaced(sentences[s])

\* text[start:end] == annotation.text, the span being as long as its text
Locates(a) ==
    /\ a.end <= Len(text)
    /\ Slice(text, a.start, a.end) = a.text
    /\ a.end - a.start = Len(a.text)

DoctestAnnotations ==
    <<[text |-> <<"M", "E", "K">>, start |-> 0, end |-> 3],
      [text |-> <<"E", "R", "K">>, start |-> 19, end |-> 22]>>

DoctestResult ==
    text = DoctestText =>
        /\ Len(annotations) = Len(DoctestAnnotations)
        /\ \A k \in 1..Len(annotations) :
               /\ annotations[k].text = DoctestAnnotations[k].text
               /\ annotations[k].start = DoctestAnnotations[k].start
               /\ annotations[k].end = DoctestAnnotations[k].end

\* C3 as stated: in a text whose words are separated by exactly one space
\* within a sentence and whose sentences are consecutive substrings of the
\* text one character apart, every annotation has text[start:end] equal to
\* its text; and the doctest's text yields (MEK, 0, 3) then (ERK, 19, 22).
C3_OffsetsLocate_Original ==
    Returned =>
        /\ RegularText => \A k \in 1..Len(annotations) : Locates(annotations[k])
        /\ DoctestResult

\* C3 as amended: the same, for texts none of whose sentences starts with
\* white space.
C3_OffsetsLocate ==
    Returned =>
        /\ (RegularText /\ \A s \in 1..Len(sentences) : ~StartsWithSpace(sentences[s]))
              => \A k \in 1..Len(annotations) : Locates(annotations[k])
        /\ DoctestResult

\* an annotation in the second sentence of a regular text, after a first
\* sentence that ends with a period
C3_Witness ==
    /\ Returned
    /\ RegularText
    /\ \A s \in 1..Len(sentences) : ~StartsWithSpace(sentences[s])
    /\ Len(sentences) = 2
    /\ sentences[1] # <<>> /\ sentences[1][Len(sentences[1])] = "."
    /\ \E i \in 1..Len(calls) : calls[i].matched /\ calls[i].sent = 2

\* C4 as stated: end is the offset of the last character of the span,
\* end = start + len(text) - 1.
C4_EndIsLastChar_Original ==
    Returned =>
        \A k \in 1..Len(annotations) :
            annotations[k].end = annotations[k].start + Len(annotations[k].text) - 1

\* C4 as amended: end is the offset one past the last character of the
\* span, end = start + len(text).
C4_EndIsOnePast ==
    Returned =>
        \A k \in 1..Len(annotations) :
            annotations[k].end = annotations[k].start + Len(annotations[k].text)

\* an annotation of a span of two words
C4_Witness ==
    /\ Returned
    /\ \E i \in 1..Len(calls) : calls[i].matched /\ calls[i].span = 2
    /\ \E k \in 1..Len(annotations) : Len(annotations[k].text) = 3

-----------------------------------------------------------------------------
(* Properties of generate_match and score_string_match                     *)

MatchReturned == pc \in {"matched", "scored"}

\* the Match was built by the last return of generate_match, after the walk
GeneralPath(m) == m.none \cap {"exact", "dash_mismatches", "cap_combos"} = {}

\* a score s with 0 <= s <= 1
InUnitInterval(s) == Returns(s) /\ s.value.den > 0 /\ 0 <= s.value.num /\ s.value.num <= s.value.den

\* s1 > s2, both being scores
ScoreGreater(s1, s2) ==
    /\ Returns(s1) /\ Returns(s2)
    /\ s1.value.den > 0 /\ s2.value.den > 0
    /\ s1.value.num * s2.value.den > s2.value.num * s1.value.den

\* C5: score_string_match is total and bounded: for every Match that
\* generate_match returns (fast path, space mismatch, general path) it
\* raises nothing and returns a score in [0, 1].
C5_ScoreTotalBounded == pc = "scored" => InUnitInterval(score)

\* the six sub-scores of a Match of the general path, most significant first
SubScores(m) ==
    <<score_short_abbr(m).value, score_mixed(m).value, score_exact(m).value,
      score_acic(m).value, score_combo(m).value, score_dash(m).value>>

\* the sub-scores first differ at a factor where a is larger
FirstDifferenceLarger(a, b) ==
    \E i \in 1..Len(a) : a[i] > b[i] /\ \A j \in 1..(i - 1) : a[j] = b[j]

\* every Match of the general path that generate_match returns for strings
\* of the model
GeneralMatches ==
    {g.value :
        g \in {x \in {generate_match(q, r, b).result :
                        q \in StringsUpTo(ScorerChars, MaxStrLen),
                        r \in StringsUpTo(ScorerChars, MaxStrLen),
                        b \in BOOLEAN} :
                  Returns(x) /\ GeneralPath(x.value)}}

\* every sub-score of a Match of the general path is a digit of its radix
\* (2, 3, 2, 3, 5, 3)
SubScoreRanges ==
    (MatchReturned /\ GeneralPath(match.value)) =>
        \A i \in 1..Len(ScoreTerms) :
            /\ 0 <= SubScores(match.value)[i]
            /\ SubScores(match.value)[i] < ScoreTerms[i][2]

\* C6: priority dominance. For two Matches m1, m2 of the general path whose
\* sub-scores first differ, in priority order, at a factor where m1 is
\* larger, score(m1) > score(m2); every sub-score is a digit of its radix.
C6_PriorityDominance ==
    (pc = "scored" /\ GeneralPath(match.value)) =>
        /\ \A i \in 1..Len(ScoreTerms) :
              /\ 0 <= SubScores(match.value)[i]
              /\ SubScores(match.value)[i] < ScoreTerms[i][2]
        /\ \A m2 \in GeneralMatches :
              FirstDifferenceLarger(SubScores(match.value), SubScores(m2))
                  => ScoreGreater(score, score_string_match(m2))

\* score(align(q, r, sentenceInitial))
ScoreOfAlignment(q, r, bos) ==
    LET g == generate_match(q, r, bos).result
    IN IF Returns(g) THEN score_string_match(g.value) ELSE g

\* C7: for a reference string r longer than 3 characters, the score of the
\* alignment of r with itself is strictly greater than the score of the
\* alignment of lowercase(r) with r, neither being sentence initial.
C7_ExactBeatsCaseFlip ==
    (pc = "scored" /\ Len(ref) > 3) =>
        ScoreGreater(ScoreOfAlignment(ref, ref, FALSE),
                     ScoreOfAlignment(Lower(ref), ref, FALSE))

\* piece pair i matched literally under the sentence-initial-sensitive rule
LiteralPair(i) ==
    /\ walk.query_pieces[i] = walk.ref_pieces[i]
    /\ (i = 1 /\ beginning_of_sentence) =>
           get_capitalization_pattern(walk.query_pieces[i], TRUE)
               = get_capitalization_pattern(walk.ref_pieces[i], FALSE)

PairLabels(i) ==
    <<get_capitalization_pattern(walk.query_pieces[i], i = 1 /\ beginning_of_sentence),
      get_capitalization_pattern(walk.ref_pieces[i], FALSE)>>

\* the numbers of the piece pairs that did not match literally, in order
OtherPairs ==
    SelectSeq([i \in 1..Len(walk.query_pieces) |-> i], LAMBDA i : ~LiteralPair(i))

\* C8 as stated: whenever exact is true, cap_combos is empty: no piece pair
\* was recorded as a capitalization mismatch (so that a pair of empty
\* pieces does not make a case-mismatched alignment exact).
C8_ExactMeansNoCapCombos_Original ==
    (MatchReturned /\ IsTrue(match.value, "exact")) =>
        (IsNone(match.value, "cap_combos") \/ match.value.cap_combos = <<>>)

\* C8 as amended: on the general path exact is true iff at least one piece
\* pair matched literally under the sentence-initial-sensitive rule, a pair
\* of empty pieces included, and cap_combos holds, in order, the label pairs
\* of the other piece pairs; on the fast path exact is true and cap_combos
\* is unset.
C8_ExactIffSomePairLiteral ==
    MatchReturned =>
        /\ GeneralPath(match.value) =>
              /\ Len(walk.query_pieces) = Len(walk.ref_pieces)
              /\ match.value.exact = (\E i \in 1..Len(walk.query_pieces) : LiteralPair(i))
              /\ match.value.cap_combos =
                     [k \in 1..Len(OtherPairs) |-> PairLabels(OtherPairs[k])]
        /\ (IsTrue(match.value, "exact") /\ ~GeneralPath(match.value)) =>
              /\ IsNone(match.value, "cap_combos")
              /\ match.value.query = match.value.ref

\* an exact Match with a capitalization mismatch, whose only literally
\* matching piece pairs are pairs of empty pieces
C8_Witness ==
    /\ MatchReturned
    /\ GeneralPath(match.value)
    /\ IsTrue(match.value, "exact")
    /\ match.value.cap_combos # <<>>
    /\ \A i \in 1..Len(walk.query_pieces) :
           LiteralPair(i) => walk.query_pieces[i] = <<>>

SpaceMismatchPath(m) ==
    /\ IsTrue(m, "space_mismatch")
    /\ {"exact", "dash_mismatches", "cap_combos"} \subseteq m.none

PopulatedPath(m) ==
    /\ ~IsTrue(m, "space_mismatch")
    /\ {"dash_mismatches", "cap_combos"} \cap m.none = {}

\* C9: every Match generate_match returns is on exactly one of two paths:
\* the space-mismatch path (space_mismatch true, exact, dash_mismatches and
\* cap_combos unset) or the populated path (space_mismatch not true,
\* dash_mismatches and cap_combos both set).
C9_ExactlyOnePath ==
    MatchReturned =>
        /\ SpaceMismatchPath(match.value) \/ PopulatedPath(match.value)
        /\ ~(SpaceMismatchPath(match.value) /\ PopulatedPath(match.value))

\* C10: generate_match raises only the consistency error, and exactly when
\* the normalized forms differ, before any walk; otherwise its walk consumes
\* a character in every iteration, never reads an exhausted string, and a
\* Match is returned.
C10_OnlyConsistencyError ==
    pc # "generate_match" =>
        IF normalize(query) # normalize(ref)
        THEN match.raised = "ValueError" /\ walk = NoWalk
        ELSE /\ Returns(match)
             /\ walk.outcome # "IndexError"
             /\ walk.iterations <= Len(query) + Len(ref)

=============================================================================
